---- MODULE Spec2Model ----
(***************************************************************************)
(* State-machine model of eeclient.async_client.AsyncEESession: the token  *)
(* bundle of one session, the coroutines that call get_headers, is_expired *)
(* and rest_call on it from one asyncio event loop, the shared httpx       *)
(* client the session hands out, the identity broker and the compute API.  *)
(*                                                                         *)
(* One action is one run of a coroutine between two suspension points of   *)
(* the event loop (an HTTP request, client.aclose(), asyncio.sleep()).     *)
(* Awaiting a coroutine does not yield to the loop, so a chain             *)
(* get_headers -> set_credentials -> get_client -> get_headers -> ... is   *)
(* evaluated inside one action, by the recursive *_chain operators.        *)
(*                                                                         *)
(* rest_call uses self.set_url_project(url); the model takes it to be the  *)
(* URL formatting of EESession.set_url_project (client.py 239-244), which  *)
(* touches no session state.                                               *)
(*                                                                         *)
(* A second part models get_assets.get_assets_async_concurrent: the        *)
(* breadth-first listing of a namespace of folders and assets, one round   *)
(* of concurrent listAssets requests per level. Its token comes from       *)
(* Session()._get_access_token(), which eeclient.client does not define;   *)
(* the model starts the enumeration with the token in hand.                *)
(*                                                                         *)
(* A third part models eeclient.client.EESession, the synchronous session: *)
(* its constructor, get_headers and rest_call, called with test=False and  *)
(* force_refresh=False.                                                    *)
(***************************************************************************)
EXTENDS Integers, Sequences, FiniteSets, TLC

\* ------------------------------------------------------------------ bounds
NTasks == 3          \* coroutines sharing the session
Horizon == 3         \* the clock (seconds) is tracked up to here; now =
                     \* Horizon stands for every later instant as well
RecursionLimit == 6  \* interpreter recursion limit, in coroutine frames
MaxRetryCount == 3   \* cap of the retry_count counter
LargeMaxAttempts == 7 \* the largest max_attempts a caller passes
NNodes == 3          \* assets a namespace holds below its root

\* ------------------------------------------------- constants of the program
SkewSeconds == 60            \* is_expired: "< 60"
max_retries == 3             \* self.max_retries
default_max_attempts == 5    \* rest_call(max_attempts=5)
initial_wait == 1            \* rest_call(initial_wait=1)
max_wait == 60               \* rest_call(max_wait=60)
RateLimitCode == 429         \* result.code == 429
MissingCode == 0 - 1         \* error.get("code", -1)

Tasks == 1..NTasks
ClientIds == 1..NTasks
None == 0
Nodes == 1..NNodes

VARIABLES
  now,            \* time.time(), whole seconds
  expiry_date,    \* self.expiry_date, unix milliseconds
  credentials,    \* self._credentials
  project_id,     \* self.project_id
  retry_count,    \* self.retry_count
  async_client,   \* self._async_client: None or the id of a client object
  clients,        \* the httpx.AsyncClient objects, by id
  task,           \* the coroutines: position, locals, and what they returned
  attempt_choices, \* the max_attempts values callers pass to rest_call
  callers,        \* for each coroutine, the methods its caller invokes
  constructor,    \* AsyncEESession(sepal_headers): pending, returned, raised
  namespace,      \* the assets the compute API holds below the root folder
  folder_queue,   \* get_assets_async_concurrent: folder_queue
  asset_list,     \* get_assets_async_concurrent: asset_list
  responses,      \* list_assets_concurrently: the requests of asyncio.gather
  enum,           \* get_assets_async_concurrent: position, locals, result
  ee_session,     \* the EESession object: its fields, or that __init__ raised
  ee_result,      \* what the last call on the EESession returned or raised
  credentials_file \* userHomes/<user>/.config/earthengine/credentials

session_vars == <<now, expiry_date, credentials, project_id, retry_count,
                  async_client, clients, task, attempt_choices, callers,
                  constructor>>

assets_vars == <<namespace, folder_queue, asset_list, responses, enum>>

ee_vars == <<ee_session, ee_result, credentials_file>>

vars == <<now, expiry_date, credentials, project_id, retry_count,
          async_client, clients, task, attempt_choices, callers,
          constructor, namespace, folder_queue, asset_list, responses, enum,
          ee_session, ee_result, credentials_file>>

\* ------------------------------------------------------------ data values
sepal_username == "admin"

InitialTokens ==
  { [accessToken |-> "t0", accessTokenExpiryDate |-> e, projectId |-> "p0"]
      : e \in {1, 62000, 3600000} }

\* bodies the broker can answer a 200 with
BrokerBundles ==
  { [access_token |-> "t1", access_token_expiry_date |-> 63000,
     project_id |-> "p1", sepal_user |-> "none"],
    [access_token |-> "t2", access_token_expiry_date |-> 61500,
     project_id |-> "p0", sepal_user |-> "none"] }

NoBundle ==
  [access_token |-> "none", access_token_expiry_date |-> 0,
   project_id |-> "none", sepal_user |-> "none"]

\* a JSON body of a 200 answer without the key "access_token_expiry_date":
\* None stands for the absent key
MalformedBundle ==
  [access_token |-> "t3", access_token_expiry_date |-> None,
   project_id |-> "p0", sepal_user |-> "none"]

Min(a, b) == IF a < b THEN a ELSE b

RECURSIVE Pow2(_)
Pow2(n) == IF n = 0 THEN 1 ELSE 2 * Pow2(n - 1)

\* f"Bearer {access_token}"
Bearer(access_token) == <<"Bearer", access_token>>

NoHeaders ==
  [project |-> "none", Authorization |-> <<>>, Username |-> "none"]

NoTokens ==
  [accessToken |-> "none", accessTokenExpiryDate |-> 0, projectId |-> "none"]

\* the decoded sepal-user header: googleTokens is null, an empty object or
\* the tokens
SepalUserData ==
  { [username |-> sepal_username,
     googleTokens |-> [kind |-> k, value |-> NoTokens]]
      : k \in {"null", "empty"} }
    \cup { [username |-> sepal_username,
            googleTokens |-> [kind |-> "tokens", value |-> g]]
             : g \in InitialTokens }

\* the truth value Python gives googleTokens
Truthy(google_tokens) == google_tokens.kind = "tokens"

\* AsyncEESession._initialize_credentials
initialize_credentials(google_tokens) ==
  [access_token |-> google_tokens.accessToken,
   access_token_expiry_date |-> google_tokens.accessTokenExpiryDate,
   project_id |-> google_tokens.projectId,
   sepal_user |-> sepal_username]

\* is_expired with the boundary on the wrong side: "<= 60"
is_expired_inclusive(expiry, t) == expiry - t * 1000 <= SkewSeconds * 1000

\* AsyncEESession.is_expired, the comparison:
\*     expiry_date / 1000 - time.time() < 60
\* with both sides multiplied by 1000 to stay in the integers
is_expired(expiry, t) == expiry - t * 1000 < SkewSeconds * 1000

\* AsyncEESession.is_expired, the counter update:
\*     self.retry_count += 1 if expired else 0
count_expired(rc, expired) == IF expired THEN rc + 1 ELSE rc

\* AsyncEESession.get_current_headers
get_current_headers(creds, project) ==
  [project |-> project,
   Authorization |-> Bearer(creds.access_token),
   Username |-> sepal_username]


\* EERestException.__init__: self.code = error.get("code", -1)
EERestException(error) ==
  [code |-> IF error.has_code THEN error.code ELSE MissingCode]

\* rest_call._make_request, the interpretation of a response: a status below
\* 400 is the decoded body; otherwise the error envelope of a JSON response,
\* or {"code": status_code, "message": reason_phrase}
make_request_result(response) ==
  IF response.status_code >= 400
    THEN IF response.json
           THEN [kind |-> "error", code |-> EERestException(response.error).code]
           ELSE [kind |-> "error",
                 code |-> EERestException([has_code |-> TRUE,
                                           code |-> response.status_code]).code]
    ELSE [kind |-> "value", code |-> 0]

\* wait_time without the cap of max_wait
wait_time_uncapped(attempt) == initial_wait * Pow2(attempt)

\* rest_call: wait_time = min(initial_wait * (2**attempt), max_wait)
wait_time(attempt) == Min(initial_wait * Pow2(attempt), max_wait)

\* answers of the compute API to one request
ApiResponses ==
  { [status_code |-> 200, json |-> TRUE, error |-> [has_code |-> FALSE, code |-> 0]],
    [status_code |-> 429, json |-> FALSE, error |-> [has_code |-> FALSE, code |-> 0]],
    [status_code |-> 429, json |-> TRUE, error |-> [has_code |-> TRUE, code |-> 429]],
    [status_code |-> 403, json |-> TRUE, error |-> [has_code |-> TRUE, code |-> 403]],
    [status_code |-> 400, json |-> TRUE, error |-> [has_code |-> FALSE, code |-> 0]] }

\* answers of the identity broker to one request
BrokerResponses ==
  { [status_code |-> 200, body |-> b] : b \in BrokerBundles }
    \cup { [status_code |-> 500, body |-> NoBundle] }

\* ------------------------------------------------------ coroutine records
NoPend ==
  [kind |-> "none", err |-> "none", status |-> 0, code |-> 0,
   body |-> NoBundle]

NoOut ==
  [kind |-> "none", err |-> "none", msg |-> "none", code |-> 0,
   headers |-> NoHeaders, expired |-> FALSE, seen |-> <<>>]

\* rest_call: the local `result`, what _make_request returned
NoResult == [kind |-> "none", code |-> 0]

IdleTask ==
  [pc |-> "idle", op |-> "none", client |-> None, attempt |-> 0,
   max_attempts |-> 0, wake |-> 0, pend |-> NoPend, reqs |-> 0,
   waits |-> <<>>, last_status |-> None, result |-> NoResult,
   out |-> NoOut]

FreeClient == [closed |-> FALSE, headers |-> NoHeaders]

\* the session fields a coroutine reads and writes, as one record
Session ==
  [expiry_date |-> expiry_date, credentials |-> credentials,
   retry_count |-> retry_count, async_client |-> async_client,
   clients |-> clients]

Raise(err, code, rc) ==
  [kind |-> "raise", err |-> err, code |-> code, retry_count |-> rc,
   new |-> FALSE]

\* ------------------------------------------- the synchronous call chains
\* Each operator is one coroutine frame entered at stack depth `depth`;
\* `lim` is the depth at which the interpreter raises RecursionError.
\* exp, ac, rc are self.expiry_date, self._async_client, self.retry_count.
RECURSIVE get_headers_chain(_, _, _, _, _)
RECURSIVE set_credentials_chain(_, _, _, _, _)
RECURSIVE refresh_loop(_, _, _, _, _, _)
RECURSIVE get_client_chain(_, _, _, _, _)

\* get_headers with the test inverted: refreshes a token that is not stale
get_headers_chain_inverted(exp, ac, rc, depth, lim) ==
  IF depth > lim THEN Raise("RecursionError", 0, rc)
  ELSE IF ~is_expired(exp, now)
    THEN set_credentials_chain(exp, ac, count_expired(rc, TRUE), depth + 1, lim)
    ELSE [kind |-> "headers", err |-> "none", code |-> 0,
          retry_count |-> count_expired(rc, FALSE), new |-> FALSE]

\* get_headers: if self.is_expired(): await self.set_credentials()
\*              return self.get_current_headers()
get_headers_chain(exp, ac, rc, depth, lim) ==
  IF depth > lim THEN Raise("RecursionError", 0, rc)
  ELSE IF is_expired(exp, now)
    THEN set_credentials_chain(exp, ac, count_expired(rc, TRUE), depth + 1, lim)
    ELSE [kind |-> "headers", err |-> "none", code |-> 0,
          retry_count |-> count_expired(rc, FALSE), new |-> FALSE]

\* set_credentials up to its loop: self.retry_count = 0; last_status = None
set_credentials_chain(exp, ac, rc, depth, lim) ==
  IF depth > lim THEN Raise("RecursionError", 0, rc)
  ELSE refresh_loop(exp, ac, 0, None, depth, lim)

\* set_credentials, the loop head:
\*   while self.retry_count < self.max_retries:
\*       async with self.get_client() as client: ...
\*   else: raise ValueError(... last status code: {last_status})
refresh_loop(exp, ac, rc, last_status, depth, lim) ==
  IF rc < max_retries
    THEN get_client_chain(exp, ac, rc, depth + 1, lim)
    ELSE Raise("ValueError", last_status, rc)

\* get_client up to its yield:
\*   if self._async_client is None:
\*       headers = await self.get_headers()
\*       self._async_client = httpx.AsyncClient(headers=headers, ...)
\*   yield self._async_client
get_client_chain(exp, ac, rc, depth, lim) ==
  IF depth > lim THEN Raise("RecursionError", 0, rc)
  ELSE IF ac = None
    THEN LET h == get_headers_chain(exp, ac, rc, depth + 1, lim)
         IN  IF h.kind = "headers"
               THEN [kind |-> "client", err |-> "none", code |-> 0,
                     retry_count |-> h.retry_count, new |-> TRUE]
               ELSE h
    ELSE [kind |-> "client", err |-> "none", code |-> 0,
          retry_count |-> rc, new |-> FALSE]


\* ------------------------------------------- what a coroutine returns
OutHeaders(h) == [NoOut EXCEPT !.kind = "headers", !.headers = h]
OutValue == [NoOut EXCEPT !.kind = "value"]
OutRaise(err, msg, code) ==
  [NoOut EXCEPT !.kind = "raise", !.err = err, !.msg = msg, !.code = code]
OutBool(b, exp, t) ==
  [NoOut EXCEPT !.kind = "bool", !.expired = b, !.seen = <<exp, t>>]

\* the coroutine of record T ends: it returned or raised `out`
Finish(S, T, out) ==
  [S |-> S,
   T |-> [T EXCEPT !.pc = "done", !.client = None, !.pend = NoPend,
                   !.wake = 0, !.out = out]]

\* an exception g of a call chain leaves the coroutine
FinishRaise(S, T, g) ==
  Finish([S EXCEPT !.retry_count = g.retry_count], T,
         OutRaise(g.err, IF g.err = "ValueError" THEN "last status code"
                                                 ELSE "none", g.code))

ClosePc(op) == IF op = "get_headers" THEN "gh_close" ELSE "rc_close"
RequestPc(op) == IF op = "get_headers" THEN "gh_request" ELSE "rc_request"

\* the smallest client id no coroutine and no session field refers to
FreshClient(used) ==
  CHOOSE i \in ClientIds \ used : \A j \in ClientIds \ used : i <= j

\* get_client yielded (chain result g): the body of `async with` sends the
\* request, client.get(credentials_url) or client.request(method, url).
\* A new client carries the headers get_headers returned; a client that was
\* closed raises at once, and the `finally` of get_client then awaits
\* aclose() on self._async_client.
SendOn(S, T, used, g) ==
  LET S1 == [S EXCEPT !.retry_count = g.retry_count]
  IN  IF g.new
        THEN LET id == FreshClient(used)
             IN  [S |-> [S1 EXCEPT
                           !.async_client = id,
                           !.clients[id] =
                              [closed |-> FALSE,
                               headers |-> get_current_headers(S.credentials,
                                                               project_id)]],
                  T |-> [T EXCEPT !.pc = RequestPc(T.op), !.client = id,
                                  !.reqs = @ + 1]]
        ELSE IF S.clients[S.async_client].closed
          THEN [S |-> S1,
                T |-> [T EXCEPT !.pc = ClosePc(T.op), !.client = None,
                                !.pend = [NoPend EXCEPT !.kind = "exception",
                                                        !.err = "RuntimeError"]]]
          ELSE [S |-> S1,
                T |-> [T EXCEPT !.pc = RequestPc(T.op),
                                !.client = S.async_client, !.reqs = @ + 1]]

\* rest_call with _make_request catching every exception of get_client and
\* returning it as an EERestException of that attempt
RestLoop_convert(S, T, used, lim) ==
  IF T.attempt < T.max_attempts
    THEN LET g == get_client_chain(S.expiry_date, S.async_client,
                                   S.retry_count, 3, lim)
         IN  IF g.kind = "client"
               THEN SendOn(S, T, used, g)
               ELSE Finish([S EXCEPT !.retry_count = g.retry_count], T,
                           OutRaise("EERestException", "remote", g.code))
    ELSE Finish(S, T, OutRaise("EERestException",
                               "Max retry attempts reached", RateLimitCode))

\* rest_call, the loop head:
\*   while attempt < max_attempts: result = await _make_request() ...
\*   raise EERestException({"code": 429, "message": "Max retry attempts reached"})
\* _make_request enters get_client at depth 3 (rest_call, _make_request,
\* get_client); only EERestException is caught there.
RestLoop(S, T, used, lim) ==
  IF T.attempt < T.max_attempts
    THEN LET g == get_client_chain(S.expiry_date, S.async_client,
                                   S.retry_count, 3, lim)
         IN  IF g.kind = "client" THEN SendOn(S, T, used, g)
                                  ELSE FinishRaise(S, T, g)
    ELSE Finish(S, T, OutRaise("EERestException",
                               "Max retry attempts reached", RateLimitCode))

\* set_credentials storing the body of every response, not only of a 200
RefreshContinue_store_any(S, T, pend, used, lim) ==
  IF pend.kind = "exception"
    THEN Finish(S, T, OutRaise(pend.err, "none", 0))
  ELSE LET S1 == [S EXCEPT !.credentials = pend.body,
                           !.expiry_date = pend.body.access_token_expiry_date]
           T1 == [T EXCEPT !.last_status = pend.status]
       IN  IF pend.status = 200
             THEN Finish(S1, T1,
                         OutHeaders(get_current_headers(S1.credentials,
                                                        project_id)))
             ELSE LET g == refresh_loop(S1.expiry_date, S1.async_client,
                                        S1.retry_count + 1, pend.status, 2,
                                        lim)
                  IN  IF g.kind = "client" THEN SendOn(S1, T1, used, g)
                                           ELSE FinishRaise(S1, T1, g)

\* set_credentials after `async with`, with the response in pend:
\*   last_status = response.status_code
\*   if response.status_code == 200: store the body, break
\*   else: self.retry_count += 1, and around the loop again
\* then get_headers returns self.get_current_headers()
\* On a 200 body without the expiry key, `self._credentials = response.json()`
\* has stored the body when self._credentials["access_token_expiry_date"]
\* raises KeyError.
RefreshContinue(S, T, pend, used, lim) ==
  IF pend.kind = "exception"
    THEN Finish(S, T, OutRaise(pend.err, "none", 0))
  ELSE IF pend.status = 200 /\ pend.body.access_token_expiry_date = None
    THEN Finish([S EXCEPT !.credentials = pend.body],
                [T EXCEPT !.last_status = pend.status],
                OutRaise("KeyError", "access_token_expiry_date", 0))
  ELSE IF pend.status = 200
    THEN LET S1 == [S EXCEPT !.credentials = pend.body,
                             !.expiry_date = pend.body.access_token_expiry_date]
             h  == get_current_headers(S1.credentials, project_id)
             S2 == IF S1.async_client # None
                     THEN [S1 EXCEPT !.clients[S1.async_client].headers = h]
                     ELSE S1
         IN  Finish(S2, [T EXCEPT !.last_status = pend.status], OutHeaders(h))
  ELSE LET T1 == [T EXCEPT !.last_status = pend.status]
           g  == refresh_loop(S.expiry_date, S.async_client,
                              S.retry_count + 1, pend.status, 2, lim)
       IN  IF g.kind = "client" THEN SendOn(S, T1, used, g)
                                ELSE FinishRaise(S, T1, g)

\* rest_call retrying every EERestException, whatever its code
RestContinue_retry_any(S, T, pend) ==
  IF pend.kind = "exception"
    THEN Finish(S, T, OutRaise(pend.err, "none", 0))
  ELSE IF pend.kind = "value"
    THEN Finish(S, [T EXCEPT !.result = [kind |-> "value", code |-> 0]],
                OutValue)
  ELSE [S |-> S,
        T |-> [T EXCEPT !.pc = "rc_sleep", !.pend = NoPend,
                        !.result = [kind |-> "error", code |-> pend.code],
                        !.attempt = @ + 1,
                        !.waits = Append(@, wait_time(T.attempt + 1)),
                        !.wake = Min(now + wait_time(T.attempt + 1),
                                     Horizon)]]

\* rest_call after _make_request, with its result in pend:
\*   429: attempt += 1; wait_time = min(...); await asyncio.sleep(wait_time)
\*   another EERestException: raise result;  otherwise: return result
RestContinue(S, T, pend) ==
  IF pend.kind = "exception"
    THEN Finish(S, T, OutRaise(pend.err, "none", 0))
  ELSE IF pend.kind = "value"
    THEN Finish(S, [T EXCEPT !.result = [kind |-> "value", code |-> 0]],
                OutValue)
  ELSE IF pend.code = RateLimitCode
    THEN [S |-> S,
          T |-> [T EXCEPT !.pc = "rc_sleep", !.pend = NoPend,
                          !.result = [kind |-> "error", code |-> pend.code],
                          !.attempt = @ + 1,
                          !.waits = Append(@, wait_time(T.attempt + 1)),
                          !.wake = Min(now + wait_time(T.attempt + 1),
                                       Horizon)]]
    ELSE Finish(S, [T EXCEPT !.result = [kind |-> "error",
                                         code |-> pend.code]],
                OutRaise("EERestException", "remote", pend.code))

Continue(S, T, pend, used, lim) ==
  IF T.op = "get_headers" THEN RefreshContinue(S, T, pend, used, lim)
                          ELSE RestContinue(S, T, pend)

\* get_client after its yield, entered when the body of `async with` ends:
\*   finally:
\*       if self._async_client is not None:
\*           await self._async_client.aclose()
\*           self._async_client = None
ExitClient(S, T, pend, used, lim) ==
  IF S.async_client # None
    THEN [S |-> [S EXCEPT !.clients[S.async_client].closed = TRUE],
          T |-> [T EXCEPT !.pc = ClosePc(T.op), !.client = None,
                          !.pend = pend]]
    ELSE Continue(S, [T EXCEPT !.client = None, !.pend = NoPend], pend,
                  used, lim)


\* ------------------------------------------------ the synchronous EESession
NoSepalHeaders ==
  [present |-> FALSE, username |-> "none", googleTokens |-> NoTokens]

\* the SepalHeaders a caller passes, or get_fresh_sepal_headers builds
SepalHeadersOf(google_tokens) ==
  [present |-> TRUE, username |-> sepal_username,
   googleTokens |-> google_tokens]

\* self._headers = None
NoStoredHeaders == [set |-> FALSE, value |-> NoHeaders]

\* the contents the credentials file of a SEPAL user can have
CredentialsFiles ==
  { [access_token |-> "t0", access_token_expiry_date |-> e,
     project_id |-> "p0"] : e \in {1, 62000, 3600000} }

\* what one get_fresh_sepal_headers() gives: the headers built from the
\* downloaded credentials, or the exception of the download
FreshAnswers ==
  { [kind |-> "headers",
     headers |-> SepalHeadersOf([accessToken |-> "t1",
                                 accessTokenExpiryDate |-> e,
                                 projectId |-> "p1"])] : e \in {1, 3600000} }
    \cup { [kind |-> "exception", headers |-> NoSepalHeaders] }

\* EESession.is_expired, the comparison: expiry_date - time.time() < 60
EESession_is_expired(expiry, t) == expiry - t < SkewSeconds

EERaise(S, err, msg, fresh) ==
  [kind |-> "raise", err |-> err, msg |-> msg, code |-> 0,
   headers |-> NoHeaders, S |-> S, fresh |-> fresh]

EEHeaders(S, headers, fresh) ==
  [kind |-> "headers", err |-> "none", msg |-> "none", code |-> 0,
   headers |-> headers, S |-> S, fresh |-> fresh]

\* EESession.get_headers, its end:
\*   if self._headers: return self._headers
\*   else: raise ValueError("Headers are not set.")
stored_headers(S, fresh) ==
  IF S.headers.set
    THEN EEHeaders(S, S.headers.value, fresh)
    ELSE EERaise(S, "ValueError", "Headers are not set.", fresh)

\* EESession.get_headers on session S; fresh are the answers the coming
\* calls of get_fresh_sepal_headers receive, file is the credentials file
RECURSIVE EESession_get_headers(_, _, _)
EESession_get_headers(S, fresh, file) ==
  IF S.retry_count >= max_retries
    THEN EERaise(S, "ValueError", "Maximum retry attempts reached.", fresh)
  ELSE IF S.sepal_headers.present
    THEN LET google_tokens == S.sepal_headers.googleTokens
             expired == EESession_is_expired(
                          google_tokens.accessTokenExpiryDate, now)
             S1 == [S EXCEPT !.project_id = google_tokens.projectId,
                             !.retry_count = count_expired(@, expired)]
         IN  IF ~expired THEN stored_headers(S1, fresh)
             ELSE IF Head(fresh).kind = "exception"
               THEN EERaise(S1, "TransportError", "none", Tail(fresh))
             ELSE EESession_get_headers(
                    [S1 EXCEPT !.sepal_headers = Head(fresh).headers],
                    Tail(fresh), file)
  ELSE IF S.sepal_user # "none"
    THEN LET expired == EESession_is_expired(
                          file.access_token_expiry_date, now)
             S1 == [S EXCEPT !.retry_count = count_expired(@, expired)]
         IN  IF ~expired
               THEN EEHeaders(S1, [project |-> file.project_id,
                                   Authorization |-> Bearer(file.access_token),
                                   Username |-> S.sepal_user], fresh)
               ELSE EESession_get_headers(S1, fresh, file)
  ELSE stored_headers(S, fresh)

\* EESession.rest_call: self.headers is evaluated three times, each time a
\* call of get_headers (the test, the print, the headers of the client);
\* then the request, answered with `response`
EESession_rest_call(S, fresh, file, response) ==
  LET r1 == EESession_get_headers(S, fresh, file)
      r2 == EESession_get_headers(r1.S, r1.fresh, file)
      r3 == EESession_get_headers(r2.S, r2.fresh, file)
      res == make_request_result(response)
  IN  IF r1.kind = "raise" THEN r1
      ELSE IF r2.kind = "raise" THEN r2
      ELSE IF r3.kind = "raise" THEN r3
      ELSE IF res.kind = "error"
        THEN [EERaise(r3.S, "EERestException", "remote", r3.fresh)
                EXCEPT !.code = res.code]
      ELSE [kind |-> "value", err |-> "none", msg |-> "none", code |-> 0,
            headers |-> r3.headers, S |-> r3.S, fresh |-> r3.fresh]

\* the arguments of EESession(...), test and force_refresh left False
EEArguments ==
  [sepal_user : {"none", sepal_username},
   sepal_headers : {NoSepalHeaders}
                     \cup { SepalHeadersOf(g) : g \in InitialTokens },
   ee_project : {"none", "p0"},
   credentials_path : {"none", "path"},
   credentials_dict : {"none", "dict"}]

\* EESession.__init__ up to its tests: the fields it sets
EESession_fields(args) ==
  [state |-> "returned", err |-> "none", msg |-> "none",
   sepal_user |-> args.sepal_user,
   sepal_headers |-> args.sepal_headers,
   project_id |-> args.ee_project,
   credentials_path |-> args.credentials_path,
   credentials_dict |-> args.credentials_dict,
   headers |-> NoStoredHeaders,
   retry_count |-> 0]

\* EESession.__init__:
\*   if self.sepal_user: self.set_user_credentials_path(self.sepal_user)
\*   elif not self.sepal_headers:
\*       if not ee_project or not credentials_path or not credentials_dict:
\*           raise ValueError(...)
\*   else: self._headers = self.get_headers()
EESession_init(args, fresh, file) ==
  LET S == EESession_fields(args)
  IN  IF S.sepal_user # "none"
        THEN [S EXCEPT !.credentials_path = "userHomes"]
      ELSE IF ~S.sepal_headers.present
        THEN IF args.ee_project = "none" \/ args.credentials_path = "none"
                  \/ args.credentials_dict = "none"
               THEN [S EXCEPT !.state = "raised", !.err = "ValueError",
                              !.msg = "Both ee_project and credentials"]
               ELSE S
      ELSE LET r == EESession_get_headers(S, fresh, file)
           IN  IF r.kind = "headers"
                 THEN [r.S EXCEPT !.headers = [set |-> TRUE,
                                               value |-> r.headers]]
                 ELSE [r.S EXCEPT !.state = "raised", !.err = r.err,
                                  !.msg = r.msg]

NoEEResult ==
  [op |-> "none", kind |-> "none", err |-> "none", msg |-> "none",
   code |-> 0, headers |-> NoHeaders]

EEResult(op, r) ==
  [op |-> op, kind |-> r.kind, err |-> r.err, msg |-> r.msg,
   code |-> r.code, headers |-> r.headers]

EEPending ==
  [EESession_fields([sepal_user |-> "none",
                     sepal_headers |-> NoSepalHeaders,
                     ee_project |-> "none", credentials_path |-> "none",
                     credentials_dict |-> "none"])
     EXCEPT !.state = "pending"]

\* no EESession has been constructed
NoEESession ==
  /\ ee_session = EEPending
  /\ ee_result = NoEEResult
  /\ credentials_file = CHOOSE f \in CredentialsFiles :
                          f.access_token_expiry_date = 3600000

\* -------------------------------------------- the asset enumeration: data
\* the folder the caller passes, and the path and id the API gives asset n
root_folder == <<"projects", 0>>
asset_name(n) == <<"assets", n>>
asset_id(n) == <<"id", n>>

AssetTypes == {"FOLDER", "IMAGE"}

\* parents[n]: the folders that list asset n (0 is the root folder); an
\* asset without parents is not in the namespace
EmptyNamespace ==
  [type |-> [n \in Nodes |-> "IMAGE"], parents |-> [n \in Nodes |-> {}]]

ParentSets == { P \in SUBSET (0..(NNodes - 1)) : Cardinality(P) <= 2 }

\* the finite acyclic namespaces: an asset is listed by the root or by
\* folders of a smaller number, at most one asset by two folders
Namespaces ==
  { ns \in [type : [Nodes -> AssetTypes], parents : [Nodes -> ParentSets]] :
      /\ \A n \in Nodes :
           /\ \A p \in ns.parents[n] :
                /\ p < n
                /\ p # 0 => (ns.type[p] = "FOLDER" /\ ns.parents[p] # {})
           /\ ns.parents[n] = {} =>
                /\ ns.type[n] = "IMAGE"
                /\ \A m \in Nodes : m > n => ns.parents[m] = {}
      /\ Cardinality({ n \in Nodes : Cardinality(ns.parents[n]) = 2 }) <= 1 }

Children(ns, p) == { n \in Nodes : p \in ns.parents[n] }

RECURSIVE SortedSeq(_)
SortedSeq(S) ==
  IF S = {} THEN <<>>
  ELSE LET m == CHOOSE x \in S : \A y \in S : x <= y
       IN  <<m>> \o SortedSeq(S \ {m})

\* the asset resource the API holds for asset n
Asset(ns, n) ==
  [type |-> ns.type[n], name |-> asset_name(n), id |-> asset_id(n),
   updateTime |-> "2024"]

\* the "assets" list of <folder>/:listAssets
ListAssets(ns, folder) ==
  LET kids == SortedSeq(Children(ns, folder[2]))
  IN  [i \in 1..Len(kids) |-> Asset(ns, kids[i])]

NoResponse == [status_code |-> 0, has_assets |-> FALSE, assets |-> <<>>]

\* what one :listAssets request can be answered with: the listing ({} for
\* a folder without assets), {"assets": []}, a body without the "assets"
\* key, and a 429
ListingResponses(ns, folder) ==
  { [status_code |-> 200, has_assets |-> ListAssets(ns, folder) # <<>>,
     assets |-> ListAssets(ns, folder)],
    [status_code |-> 200, has_assets |-> TRUE, assets |-> <<>>],
    [status_code |-> 200, has_assets |-> FALSE, assets |-> <<>>],
    [status_code |-> RateLimitCode, has_assets |-> FALSE, assets |-> <<>>] }

\* list_assets_concurrently, the filter of its comprehension:
\*   if response.status_code == 200 and response.json().get("assets")
has_listing(response) ==
  response.status_code = 200 /\ response.has_assets
    /\ response.assets # <<>>

\* list_assets_concurrently giving up the round at the first response
\* without assets: the responses after it are dropped as well
list_assets_groups_until_empty(resps) ==
  LET bad == { i \in DOMAIN resps : ~has_listing(resps[i]) }
      stop == IF bad = {} THEN Len(resps) + 1
              ELSE CHOOSE i \in bad : \A j \in bad : i <= j
  IN  [i \in 1..(stop - 1) |-> resps[i].assets]

\* list_assets_concurrently, the list it returns, in the order of `folders`
list_assets_groups(resps) ==
  LET kept == SelectSeq(resps, has_listing)
  IN  [i \in 1..Len(kept) |-> kept[i].assets]

\* for assets in assets_groups: for asset in assets: the assets in the
\* order the two loops visit them
RECURSIVE Flatten(_)
Flatten(groups) ==
  IF groups = <<>> THEN <<>> ELSE Head(groups) \o Flatten(Tail(groups))

\* {"type": asset["type"], "name": asset["name"], "id": asset["id"]}
asset_entry(asset) ==
  [type |-> asset.type, name |-> asset.name, id |-> asset.id]

\* the loop body without the append: folders are queued, nothing is
\* collected for them
append_assets_leaves_only(list, groups) ==
  LET flat == SelectSeq(Flatten(groups), LAMBDA a : a.type # "FOLDER")
  IN  list \o [i \in 1..Len(flat) |-> asset_entry(flat[i])]

\* asset_list.append(...) for every asset of every group
append_assets(list, groups) ==
  LET flat == Flatten(groups)
  IN  list \o [i \in 1..Len(flat) |-> asset_entry(flat[i])]

is_folder(asset) == asset.type = "FOLDER"

\* the loop body queueing every asset, whatever its type
put_folders_every_asset(queue, groups) ==
  LET flat == Flatten(groups)
  IN  queue \o [i \in 1..Len(flat) |-> flat[i].name]

\* if asset["type"] == "FOLDER": await folder_queue.put(asset["name"])
put_folders(queue, groups) ==
  LET flat == SelectSeq(Flatten(groups), is_folder)
  IN  queue \o [i \in 1..Len(flat) |-> flat[i].name]

NoEnumOut == [kind |-> "none", err |-> "none"]

\* the coroutine get_assets_async_concurrent: current_folders, and for the
\* properties the rounds of listing so far, the answer each folder got,
\* and whether an answer overtook that of an earlier request of its round
IdleEnum ==
  [pc |-> "idle", current_folders |-> <<>>, levels |-> 0, listed |-> {},
   overtaken |-> FALSE, out |-> NoEnumOut]

\* get_assets_async_concurrent, the loop head:
\*   while not folder_queue.empty():
\*       current_folders = [await folder_queue.get() for _ in range(qsize())]
\*       assets_groups = await list_assets_concurrently(token, current_folders)
\*   return asset_list
NextLevel(queue, list, E) ==
  IF queue = <<>>
    THEN [queue |-> <<>>, list |-> list, responses |-> <<>>,
          E |-> [E EXCEPT !.pc = "done", !.current_folders = <<>>,
                          !.out = [kind |-> "value", err |-> "none"]]]
    ELSE [queue |-> <<>>, list |-> list,
          responses |-> [i \in 1..Len(queue) |-> NoResponse],
          E |-> [E EXCEPT !.pc = "gather", !.current_folders = queue,
                          !.levels = @ + 1]]

ApplyEnum(r) ==
  /\ folder_queue' = r.queue
  /\ asset_list' = r.list
  /\ responses' = r.responses
  /\ enum' = r.E
  /\ UNCHANGED namespace
  /\ UNCHANGED <<session_vars, ee_vars>>


\* ---------------------------------------------------------------- actions
\* The interpreter counts every frame and the chains count the coroutine
\* frames only, so the limit can strike in any frame of a get_headers ->
\* set_credentials -> get_client cycle: after is_expired has counted and
\* before set_credentials resets retry_count, or after the reset.
DepthLimits == RecursionLimit..(RecursionLimit + 1)

\* client ids the other coroutines hold
Others(t) == { task[u].client : u \in Tasks \ {t} } \ {None}

\* A coroutine that ended resumes its awaiting caller in the same run of
\* the event loop, before any other coroutine: no step is taken while a
\* result waits to be taken (Return).
Running == \A u \in Tasks : task[u].pc # "done"

\* the step of coroutine t with result r = [S, T]; a client object nothing
\* refers to any more is garbage
Apply(t, r) ==
  LET newtask == [task EXCEPT ![t] = r.T]
      refs == { newtask[u].client : u \in Tasks } \cup {r.S.async_client}
  IN  /\ Running
      /\ constructor.state = "returned"
      /\ task' = newtask
      /\ expiry_date' = r.S.expiry_date
      /\ credentials' = r.S.credentials
      /\ retry_count' = r.S.retry_count
      /\ async_client' = r.S.async_client
      /\ clients' = [i \in ClientIds |->
                       IF i \in refs THEN r.S.clients[i] ELSE FreeClient]
      /\ UNCHANGED <<now, project_id, attempt_choices, callers>>
      /\ UNCHANGED <<constructor, assets_vars, ee_vars>>

\* a caller awaits session.get_headers()
CallGetHeaders(t) ==
  /\ task[t].pc = "idle"
  /\ "get_headers" \in callers[t]
  /\ \E lim \in DepthLimits :
       LET T == [IdleTask EXCEPT !.op = "get_headers"]
           g == get_headers_chain(expiry_date, async_client, retry_count,
                                  1, lim)
       IN  Apply(t,
             IF g.kind = "headers"
               THEN Finish([Session EXCEPT !.retry_count = g.retry_count], T,
                           OutHeaders(get_current_headers(credentials,
                                                          project_id)))
             ELSE IF g.kind = "client"
               THEN SendOn(Session, T, Others(t), g)
             ELSE FinishRaise(Session, T, g))

\* a caller evaluates session.is_expired()
CallIsExpired(t) ==
  /\ task[t].pc = "idle"
  /\ "is_expired" \in callers[t]
  /\ retry_count < MaxRetryCount
  /\ LET expired == is_expired(expiry_date, now)
     IN  Apply(t, Finish([Session EXCEPT
                            !.retry_count = count_expired(@, expired)],
                         [IdleTask EXCEPT !.op = "is_expired"],
                         OutBool(expired, expiry_date, now)))

\* a caller awaits session.rest_call(method, url, data, max_attempts)
CallRestCall(t) ==
  /\ task[t].pc = "idle"
  /\ "rest_call" \in callers[t]
  /\ \E m \in attempt_choices, lim \in DepthLimits :
       Apply(t, RestLoop(Session,
                         [IdleTask EXCEPT !.op = "rest_call",
                                          !.max_attempts = m],
                         Others(t), lim))

\* the broker answers the request of client.get(credentials_url)
BrokerResponse(t) ==
  /\ task[t].pc = "gh_request"
  /\ \E response \in BrokerResponses, lim \in DepthLimits :
       Apply(t, ExitClient(Session, task[t],
                           [NoPend EXCEPT !.kind = "response",
                                          !.status = response.status_code,
                                          !.body = response.body],
                           Others(t), lim))

\* the broker answers 200 with a body that lacks the expiry key
BrokerMalformedResponse(t) ==
  /\ task[t].pc = "gh_request"
  /\ \E lim \in DepthLimits :
       Apply(t, ExitClient(Session, task[t],
                           [NoPend EXCEPT !.kind = "response",
                                          !.status = 200,
                                          !.body = MalformedBundle],
                           Others(t), lim))

\* the request to the broker fails in the transport
BrokerException(t) ==
  /\ task[t].pc = "gh_request"
  /\ \E lim \in DepthLimits :
       Apply(t, ExitClient(Session, task[t],
                           [NoPend EXCEPT !.kind = "exception",
                                          !.err = "TransportError"],
                           Others(t), lim))

\* the compute API answers the request of client.request(method, url)
ApiResponse(t) ==
  /\ task[t].pc = "rc_request"
  /\ \E response \in ApiResponses, lim \in DepthLimits :
       LET res == make_request_result(response)
       IN  Apply(t, ExitClient(Session, task[t],
                               [NoPend EXCEPT !.kind = res.kind,
                                              !.code = res.code],
                               Others(t), lim))

\* the request to the compute API fails in the transport
ApiException(t) ==
  /\ task[t].pc = "rc_request"
  /\ \E lim \in DepthLimits :
       Apply(t, ExitClient(Session, task[t],
                           [NoPend EXCEPT !.kind = "exception",
                                          !.err = "TransportError"],
                           Others(t), lim))

\* aclose() returns: self._async_client = None, and the coroutine goes on
\* after its `async with`
AfterClose(t) ==
  /\ task[t].pc \in {"gh_close", "rc_close"}
  /\ \E lim \in DepthLimits :
       Apply(t, Continue([Session EXCEPT !.async_client = None],
                         [task[t] EXCEPT !.pend = NoPend], task[t].pend,
                         Others(t), lim))

\* asyncio.sleep(wait_time) returns, not before wait_time has passed
WakeUp(t) ==
  /\ task[t].pc = "rc_sleep"
  /\ now >= task[t].wake
  /\ \E lim \in DepthLimits :
       Apply(t, RestLoop(Session, [task[t] EXCEPT !.wake = 0], Others(t),
                         lim))

\* the caller takes the result; the coroutine object is gone
Return(t) ==
  /\ task[t].pc = "done"
  /\ task' = [task EXCEPT ![t] = IdleTask]
  /\ UNCHANGED <<now, expiry_date, credentials, project_id, retry_count,
                 async_client, clients, attempt_choices, callers>>
  /\ UNCHANGED <<constructor, assets_vars, ee_vars>>

\* a second passes
Tick ==
  /\ Running
  /\ now < Horizon
  /\ now' = now + 1
  /\ UNCHANGED <<expiry_date, credentials, project_id, retry_count,
                 async_client, clients, task, attempt_choices, callers>>
  /\ UNCHANGED <<constructor, assets_vars, ee_vars>>

\* the session before __init__ has set the token fields (lines 62-69):
\* expiry_date = 0, retry_count = 0, no credentials, no client
NoSession ==
  /\ expiry_date = 0
  /\ credentials = NoBundle
  /\ project_id = "none"
  /\ retry_count = 0
  /\ async_client = None
  /\ clients = [i \in ClientIds |-> FreeClient]

Pending == [state |-> "pending", err |-> "none", google_tokens |-> "none"]
Returned == [state |-> "returned", err |-> "none", google_tokens |-> "tokens"]

\* __init__ without the test of googleTokens: the session is built from
\* whatever the header holds
init_session_unchecked(user_data) ==
  [kind |-> "session",
   err |-> "none",
   expiry_date |-> user_data.googleTokens.value.accessTokenExpiryDate,
   credentials |-> initialize_credentials(user_data.googleTokens.value),
   project_id |-> user_data.googleTokens.value.projectId]

\* AsyncEESession.__init__:
\*   if not self.sepal_user_data["googleTokens"]: raise EEClientError(...)
\*   self.project_id = ...; self._async_client = None
\*   self._initialize_credentials()
init_session(user_data) ==
  IF ~Truthy(user_data.googleTokens)
    THEN [kind |-> "raise", err |-> "EEClientError", expiry_date |-> 0,
          credentials |-> NoBundle, project_id |-> "none"]
    ELSE [kind |-> "session",
          err |-> "none",
          expiry_date |-> user_data.googleTokens.value.accessTokenExpiryDate,
          credentials |-> initialize_credentials(user_data.googleTokens.value),
          project_id |-> user_data.googleTokens.value.projectId]

\* a caller evaluates AsyncEESession(sepal_headers)
Construct ==
  /\ constructor.state = "pending"
  /\ \E user_data \in SepalUserData :
       LET r == init_session(user_data)
       IN  /\ constructor' =
                [state |-> IF r.kind = "raise" THEN "raised" ELSE "returned",
                 err |-> r.err,
                 google_tokens |-> user_data.googleTokens.kind]
           /\ expiry_date' = r.expiry_date
           /\ credentials' = r.credentials
           /\ project_id' = r.project_id
  /\ UNCHANGED <<now, retry_count, async_client, clients, task,
                 attempt_choices, callers>>
  /\ UNCHANGED <<assets_vars, ee_vars>>

\* AsyncEESession.__init__ with the googleTokens of the sepal-user header
InitSession(google_tokens) ==
  /\ constructor = Returned
  /\ expiry_date = google_tokens.accessTokenExpiryDate
  /\ credentials = initialize_credentials(google_tokens)
  /\ project_id = google_tokens.projectId
  /\ retry_count = 0
  /\ async_client = None
  /\ clients = [i \in ClientIds |-> FreeClient]

\* no enumeration runs, over a namespace without assets, and no EESession
\* is in use
NoEnumeration ==
  /\ namespace = EmptyNamespace
  /\ folder_queue = <<>>
  /\ asset_list = <<>>
  /\ responses = <<>>
  /\ enum = IdleEnum
  /\ NoEESession

Init ==
  /\ now = 0
  /\ \E google_tokens \in InitialTokens : InitSession(google_tokens)
  /\ NoEnumeration
  /\ task = [t \in Tasks |-> IdleTask]
  /\ attempt_choices = {2}
  /\ callers = [t \in Tasks |->
                  IF t = 1 THEN {"rest_call"}
                  ELSE IF t = 2 THEN {"get_headers", "is_expired"}
                  ELSE {"get_headers"}]

Next ==
  \/ \E t \in Tasks : CallGetHeaders(t)
  \/ \E t \in Tasks : CallIsExpired(t)
  \/ \E t \in Tasks : CallRestCall(t)
  \/ \E t \in Tasks : BrokerResponse(t)
  \/ \E t \in Tasks : BrokerException(t)
  \/ \E t \in Tasks : ApiResponse(t)
  \/ \E t \in Tasks : ApiException(t)
  \/ \E t \in Tasks : AfterClose(t)
  \/ \E t \in Tasks : WakeUp(t)
  \/ \E t \in Tasks : Return(t)
  \/ Tick

Spec == Init /\ [][Next]_vars

\* the same callers, with a broker that can also answer 200 with a body
\* that lacks the expiry key
NextMalformed ==
  \/ Next
  \/ \E t \in Tasks : BrokerMalformedResponse(t)

SpecMalformed == Init /\ [][NextMalformed]_vars


\* one caller of rest_call alone on the session, with the default and a
\* larger max_attempts
InitRest ==
  /\ now = 0
  /\ \E google_tokens \in InitialTokens : InitSession(google_tokens)
  /\ NoEnumeration
  /\ task = [t \in Tasks |-> IdleTask]
  /\ attempt_choices = {default_max_attempts, LargeMaxAttempts}
  /\ callers = [t \in Tasks |-> IF t = 1 THEN {"rest_call"} ELSE {}]

NextRest ==
  \/ \E t \in Tasks : CallRestCall(t)
  \/ \E t \in Tasks : ApiResponse(t)
  \/ \E t \in Tasks : ApiException(t)
  \/ \E t \in Tasks : AfterClose(t)
  \/ \E t \in Tasks : WakeUp(t)
  \/ \E t \in Tasks : Return(t)
  \/ Tick

SpecRest == InitRest /\ [][NextRest]_vars


\* two callers of rest_call share the session
InitShared ==
  /\ now = 0
  /\ \E google_tokens \in InitialTokens : InitSession(google_tokens)
  /\ NoEnumeration
  /\ task = [t \in Tasks |-> IdleTask]
  /\ attempt_choices = {2}
  /\ callers = [t \in Tasks |-> IF t \in {1, 2} THEN {"rest_call"} ELSE {}]

SpecShared == InitShared /\ [][NextRest]_vars


\* the session is still to be constructed, from any sepal-user header; one
\* caller of rest_call then uses it
InitNew ==
  /\ now = 0
  /\ constructor = Pending
  /\ NoSession
  /\ NoEnumeration
  /\ task = [t \in Tasks |-> IdleTask]
  /\ attempt_choices = {2}
  /\ callers = [t \in Tasks |-> IF t = 1 THEN {"rest_call"} ELSE {}]

NextNew ==
  \/ Construct
  \/ NextRest

SpecNew == InitNew /\ [][NextNew]_vars


\* ------------------------------------------ the asset enumeration: actions
\* a caller awaits get_assets_async_concurrent(folder): the root is queued
\* and the first round of requests is sent
CallGetAssets ==
  /\ enum.pc = "idle"
  /\ ApplyEnum(NextLevel(<<root_folder>>, <<>>, IdleEnum))

\* the API answers request i of the round
ListResponse(i) ==
  /\ enum.pc = "gather"
  /\ i \in DOMAIN responses
  /\ responses[i] = NoResponse
  /\ \E response \in ListingResponses(namespace, enum.current_folders[i]) :
       /\ responses' = [responses EXCEPT ![i] = response]
       /\ enum' = [enum EXCEPT
                     !.listed = @ \cup {<<enum.current_folders[i], response>>},
                     !.overtaken =
                        @ \/ \E j \in 1..(i - 1) : responses[j] = NoResponse]
  /\ UNCHANGED <<namespace, folder_queue, asset_list>>
  /\ UNCHANGED <<session_vars, ee_vars>>

\* request i of the round fails in the transport: asyncio.gather raises
\* the exception, which leaves get_assets_async_concurrent
ListException(i) ==
  /\ enum.pc = "gather"
  /\ i \in DOMAIN responses
  /\ responses[i] = NoResponse
  /\ ApplyEnum([queue |-> <<>>, list |-> <<>>, responses |-> <<>>,
                E |-> [enum EXCEPT !.pc = "done", !.current_folders = <<>>,
                                   !.out = [kind |-> "raise",
                                            err |-> "TransportError"]]])

\* every request of the round is answered: asyncio.gather returns, the
\* assets of the round are collected and the next round starts
GatherReturns ==
  /\ enum.pc = "gather"
  /\ \A i \in DOMAIN responses : responses[i] # NoResponse
  /\ LET assets_groups == list_assets_groups(responses)
     IN  ApplyEnum(NextLevel(put_folders(folder_queue, assets_groups),
                             append_assets(asset_list, assets_groups),
                             enum))

\* the caller takes the result
ReturnAssets ==
  /\ enum.pc = "done"
  /\ ApplyEnum([queue |-> <<>>, list |-> <<>>, responses |-> <<>>,
                E |-> IdleEnum])

\* one enumeration at a time, over any namespace
InitAssets ==
  /\ now = 0
  /\ \E google_tokens \in InitialTokens :
       /\ google_tokens.accessTokenExpiryDate = 3600000
       /\ InitSession(google_tokens)
  /\ task = [t \in Tasks |-> IdleTask]
  /\ attempt_choices = {}
  /\ callers = [t \in Tasks |-> {}]
  /\ namespace \in Namespaces
  /\ folder_queue = <<>>
  /\ asset_list = <<>>
  /\ responses = <<>>
  /\ enum = IdleEnum
  /\ NoEESession

NextAssets ==
  \/ CallGetAssets
  \/ \E i \in 1..NNodes : ListResponse(i)
  \/ \E i \in 1..NNodes : ListException(i)
  \/ GatherReturns
  \/ ReturnAssets

SpecAssets == InitAssets /\ [][NextAssets]_vars

\* every request ends, with an answer or with an exception of the
\* transport (httpx times a request out), and the event loop resumes the
\* coroutine whose gather is complete
SpecAssetsFair ==
  /\ InitAssets
  /\ [][NextAssets]_vars
  /\ WF_vars(\E i \in 1..NNodes : ListResponse(i) \/ ListException(i))
  /\ WF_vars(GatherReturns)


\* ----------------------------------------- the synchronous EESession: actions
FreshSequences == [1..max_retries -> FreshAnswers]

\* a caller evaluates EESession(...)
EEConstruct ==
  /\ ee_session.state = "pending"
  /\ \E args \in EEArguments, fresh \in FreshSequences :
       ee_session' = EESession_init(args, fresh, credentials_file)
  /\ UNCHANGED <<ee_result, credentials_file>>
  /\ UNCHANGED <<session_vars, assets_vars>>

\* a caller evaluates session.get_headers()
EEGetHeaders ==
  /\ ee_session.state = "returned"
  /\ \E fresh \in FreshSequences :
       LET r == EESession_get_headers(ee_session, fresh, credentials_file)
       IN  /\ ee_session' = r.S
           /\ ee_result' = EEResult("get_headers", r)
  /\ UNCHANGED credentials_file
  /\ UNCHANGED <<session_vars, assets_vars>>

\* a caller evaluates session.rest_call(method, url, data)
EERestCall ==
  /\ ee_session.state = "returned"
  /\ \E fresh \in FreshSequences, response \in ApiResponses :
       LET r == EESession_rest_call(ee_session, fresh, credentials_file,
                                    response)
       IN  /\ ee_session' = r.S
           /\ ee_result' = EEResult("rest_call", r)
  /\ UNCHANGED credentials_file
  /\ UNCHANGED <<session_vars, assets_vars>>

\* SEPAL rewrites the credentials file of the user
UpdateCredentialsFile ==
  /\ ee_session.state = "returned"
  /\ ee_session.sepal_user # "none"
  /\ \E f \in CredentialsFiles :
       /\ f # credentials_file
       /\ credentials_file' = f
  /\ UNCHANGED <<ee_session, ee_result>>
  /\ UNCHANGED <<session_vars, assets_vars>>

\* an EESession is constructed from any arguments and then used
InitEE ==
  /\ now = 0
  /\ \E google_tokens \in InitialTokens :
       /\ google_tokens.accessTokenExpiryDate = 3600000
       /\ InitSession(google_tokens)
  /\ NoEnumeration
  /\ task = [t \in Tasks |-> IdleTask]
  /\ attempt_choices = {}
  /\ callers = [t \in Tasks |-> {}]

NextEE ==
  \/ EEConstruct
  \/ EEGetHeaders
  \/ EERestCall
  \/ UpdateCredentialsFile
  \/ Tick

SpecEE == InitEE /\ [][NextEE]_vars


\* ------------------------------------------------------------ properties
\* get_headers calls that are inside set_credentials
Refreshing ==
  { t \in Tasks : task[t].op = "get_headers"
                  /\ task[t].pc \in {"gh_request", "gh_close"} }

\* milliseconds the stored token still has
Remaining == expiry_date - now * 1000

\* C1: single-flight refresh. Of the get_headers calls that found the token
\* stale and are in progress together, one at most asks the broker; the
\* others wait for its outcome.
C1_SingleFlight ==
  \A t \in Refreshing, u \in Refreshing :
    t # u => ~(task[t].reqs >= 1 /\ task[u].reqs >= 1)

\* C2: at most one execution of set_credentials is in progress on the
\* session at any time.
C2_OneRefreshInProgress == Cardinality(Refreshing) <= 1

\* C3: is_expired returns true exactly when expiry_date/1000 - now < 60:
\* 59 s left is stale, 60 s and 61 s are not.
C3_IsExpiredThreshold ==
  \A t \in Tasks :
    task[t].out.kind = "bool" =>
      LET left == task[t].out.seen[1] - task[t].out.seen[2] * 1000
      IN  /\ left < 60000 => task[t].out.expired
          /\ left >= 60000 => ~task[t].out.expired
          /\ left = 59000 => task[t].out.expired
          /\ left \in {60000, 61000} => ~task[t].out.expired

\* is_expired has answered for a token with exactly 60 s left
C3_Witness ==
  \E t \in Tasks :
    /\ task[t].out.kind = "bool"
    /\ task[t].out.seen[1] - task[t].out.seen[2] * 1000 = 60000
    /\ ~task[t].out.expired

C5_RefreshAttempts ==
  \A t \in Tasks :
    (task[t].pc = "done" /\ task[t].op = "get_headers"
       /\ task[t].out.kind = "raise"
       /\ task[t].out.err \notin {"TransportError", "RuntimeError"}
       /\ task[t].last_status \notin {None, 200})
      => /\ task[t].out.err = "ValueError"
         /\ task[t].out.code = task[t].last_status
         /\ task[t].reqs = max_retries

\* C6: a refresh that fails writes nothing: the step in which a get_headers
\* call ends with an error leaves _credentials and expiry_date as they were,
\* and every step that changes them is the end of a refresh on a 200 answer.
C6_FailedRefreshKeepsBundle ==
  [][/\ \A t \in Tasks :
          (task[t].pc # "done" /\ task'[t].pc = "done"
             /\ task'[t].op = "get_headers" /\ task'[t].out.kind = "raise")
            => (credentials' = credentials /\ expiry_date' = expiry_date)
     /\ (credentials' # credentials \/ expiry_date' # expiry_date)
          => \E t \in Tasks :
               /\ task[t].pc \in {"gh_request", "gh_close"}
               /\ task'[t].pc = "done"
               /\ task'[t].out.kind = "headers"
               /\ task'[t].last_status = 200]_vars

\* a refresh has failed after a non-200 answer of the broker
C6_Witness ==
  \E t \in Tasks :
    /\ task[t].pc = "done" /\ task[t].op = "get_headers"
    /\ task[t].out.kind = "raise" /\ task[t].last_status = 500
    /\ task[t].reqs >= 1

\* C7: a transport exception of the broker request is retried: it reaches
\* the caller only when max_retries requests have been made.
C7_TransportErrorRetried ==
  \A t \in Tasks :
    (task[t].pc = "done" /\ task[t].op = "get_headers"
       /\ task[t].out.err = "TransportError")
      => task[t].reqs = max_retries

\* C8: a rest_call that the compute API answered with 429 every time has
\* sent exactly max_attempts requests and fails with the rate-limit error
\* of code 429.
C8_RateLimitExhausted ==
  \A t \in Tasks :
    (task[t].pc = "done" /\ task[t].op = "rest_call"
       /\ task[t].result = [kind |-> "error", code |-> 429]
       /\ task[t].out.err # "TransportError")
      => /\ task[t].out = OutRaise("EERestException",
                                   "Max retry attempts reached", 429)
         /\ task[t].reqs = task[t].max_attempts

\* C9: code 429 is the only retryable outcome. A request that yields an
\* error of another code ends rest_call with that error, with no further
\* request and no sleep; rest_call sleeps after a 429 only.
C9_OnlyRateLimitRetried ==
  \A t \in Tasks :
    /\ (task[t].op = "rest_call" /\ task[t].result.kind = "error"
          /\ task[t].result.code # 429)
         => /\ task[t].pc = "done"
            /\ task[t].out = OutRaise("EERestException", "remote",
                                      task[t].result.code)
            /\ task[t].reqs = task[t].attempt + 1
            /\ Len(task[t].waits) = task[t].attempt
    /\ task[t].pc = "rc_sleep"
         => task[t].result = [kind |-> "error", code |-> 429]

\* rest_call raised a 403 after at least one 429 retry
C9_Witness ==
  \E t \in Tasks :
    /\ task[t].pc = "done" /\ task[t].op = "rest_call"
    /\ task[t].result = [kind |-> "error", code |-> 403]
    /\ task[t].attempt >= 1

\* C10: the wait before retry k is min(initial_wait * 2^k, max_wait): 2, 4,
\* 8, 16, 32 for k = 1..5 and 60 afterwards, never more than max_wait.
C10_BackoffSchedule ==
  \A t \in Tasks :
    \A k \in 1..Len(task[t].waits) :
      /\ task[t].waits[k] = Min(1 * 2^k, 60)
      /\ task[t].waits[k] <= 60
      /\ k <= 5 => task[t].waits[k] = <<2, 4, 8, 16, 32>>[k]
      /\ k > 5 => task[t].waits[k] = 60

\* a rest_call has slept six times: the sixth wait is the capped one
C10_Witness ==
  \E t \in Tasks : Len(task[t].waits) >= 6 /\ task[t].waits[6] = 60

\* C11: a failure of the refresh that rest_call runs to obtain its headers
\* reaches the caller of rest_call as it was raised. An attempt that starts
\* on a stale token with no client open ends rest_call in that step with the
\* error of the refresh, not with an EERestException; the attempt sends no
\* request to the compute API, counts no retry and sleeps no backoff.
C11_RefreshFailurePropagates ==
  [][\A t \in Tasks :
       (/\ task[t].pc \in {"idle", "rc_sleep"}
        /\ task'[t].pc # task[t].pc
        /\ task'[t].op = "rest_call"
        /\ task'[t].attempt < task'[t].max_attempts
        /\ is_expired(expiry_date, now)
        /\ async_client = None)
         => /\ task'[t].pc = "done"
            /\ task'[t].out.kind = "raise"
            /\ task'[t].out.err \in {"RecursionError", "ValueError"}
            /\ task'[t].out.err # "EERestException"
            /\ task'[t].reqs = task[t].reqs
            /\ task'[t].attempt = task[t].attempt
            /\ task'[t].waits = task[t].waits]_vars

\* the refresh of a second attempt failed: rest_call raised its error after
\* one request and one backoff sleep
C11_Witness ==
  \E t \in Tasks :
    /\ task[t].pc = "done" /\ task[t].op = "rest_call"
    /\ task[t].out.err = "RecursionError"
    /\ task[t].attempt = 1 /\ task[t].reqs = 1
    /\ Len(task[t].waits) = 1

\* the namespace is a tree: no asset is listed by two folders
IsTree(ns) == \A n \in Nodes : Cardinality(ns.parents[n]) <= 1

\* the assets below the root
InNamespace(ns) == { n \in Nodes : ns.parents[n] # {} }

\* every request of the enumeration so far was answered 200 with the
\* listing of its folder
AllListed ==
  \A p \in enum.listed :
    p[2].status_code = 200 /\ p[2].assets = ListAssets(namespace, p[1])

\* C12: on a tree-shaped namespace whose listings all succeed, the list
\* get_assets_async_concurrent returns holds every asset below the root,
\* folder or not, exactly once, as {type, name, id}; the entries depend on
\* the namespace only, not on the order in which the answers arrived.
C12_EveryNodeOnce ==
  (enum.pc = "done" /\ enum.out.kind = "value" /\ IsTree(namespace)
     /\ AllListed)
    => /\ Len(asset_list) = Cardinality(InNamespace(namespace))
       /\ \A n \in InNamespace(namespace) :
            Cardinality({ i \in DOMAIN asset_list :
                            asset_list[i] = [type |-> namespace.type[n],
                                             name |-> <<"assets", n>>,
                                             id |-> <<"id", n>>] }) = 1

\* an enumeration of a tree with an asset inside a sub-folder has returned,
\* after an answer had overtaken an earlier request of its round
C12_Witness ==
  /\ enum.pc = "done" /\ enum.out.kind = "value"
  /\ IsTree(namespace) /\ AllListed
  /\ enum.overtaken
  /\ Len(asset_list) >= 3
  /\ \E n \in Nodes : Children(namespace, n) # {}

\* C13: a listing request that is answered with a failure status fails the
\* whole enumeration: it ends with an error and returns no list, never a
\* list without the assets below the folder whose listing failed.
C13_FailureAborts ==
  (enum.pc = "done"
     /\ \E p \in enum.listed : p[2].status_code # 200)
    => /\ enum.out.kind = "raise"
       /\ asset_list = <<>>

\* a 200 answer without assets: {}, {"assets": []} or no "assets" key
EmptyListing(response) ==
  response.status_code = 200
    /\ (~response.has_assets \/ response.assets = <<>>)

\* the elements of a sequence
Range(seq) == { seq[i] : i \in DOMAIN seq }

RECURSIVE TotalLen(_)
TotalLen(seqs) ==
  IF seqs = <<>> THEN 0 ELSE Len(Head(seqs)) + TotalLen(Tail(seqs))

\* C14: a 200 answer that is empty or has no "assets" key stands for a
\* folder without assets. When a round is complete, such answers add no
\* entry and queue no folder, the enumeration goes on without an error, and
\* every asset of the other answers of the round is collected, and queued
\* for the next round if it is a folder.
C14_EmptyListingIsNoChildren ==
  [][(/\ enum.pc = "gather"
      /\ \A i \in DOMAIN responses : responses[i] # NoResponse
      /\ enum' # enum)
       => LET full == { i \in DOMAIN responses :
                          responses[i].status_code = 200
                            /\ ~EmptyListing(responses[i]) }
              added == SubSeq(asset_list', Len(asset_list) + 1,
                              Len(asset_list'))
          IN  /\ enum'.out.kind # "raise"
              /\ enum'.pc \in {"gather", "done"}
              /\ SubSeq(asset_list', 1, Len(asset_list)) = asset_list
              /\ Len(added) =
                   TotalLen([i \in DOMAIN responses |->
                               IF i \in full THEN responses[i].assets
                                             ELSE <<>>])
              /\ \A i \in full :
                   \A a \in Range(responses[i].assets) :
                     /\ [type |-> a.type, name |-> a.name, id |-> a.id]
                          \in Range(added)
                     /\ a.type = "FOLDER"
                          => a.name \in Range(enum'.current_folders)
              /\ \A f \in Range(enum'.current_folders) :
                   \E i \in full : \E a \in Range(responses[i].assets) :
                     a.name = f /\ a.type = "FOLDER"]_vars

\* an enumeration has returned the assets of one folder of a round whose
\* other folder was answered 200 without assets
C14_Witness ==
  /\ enum.pc = "done" /\ enum.out.kind = "value"
  /\ \E p \in enum.listed, q \in enum.listed :
       /\ p[1] # root_folder /\ q[1] # root_folder /\ p[1] # q[1]
       /\ namespace.parents[p[1][2]] = {0}
       /\ namespace.parents[q[1][2]] = {0}
       /\ EmptyListing(p[2])
       /\ has_listing(q[2])
       /\ \A a \in Range(q[2].assets) :
            [type |-> a.type, name |-> a.name, id |-> a.id]
              \in Range(asset_list)

Max(a, b) == IF a > b THEN a ELSE b

\* the length of the longest path from the root folder to asset n
RECURSIVE NodeDepth(_, _)
NodeDepth(ns, n) ==
  IF n = 0 THEN 0
  ELSE LET RECURSIVE Longest(_)
           Longest(P) ==
             IF P = {} THEN 0
             ELSE LET p == CHOOSE x \in P : TRUE
                  IN  Max(NodeDepth(ns, p), Longest(P \ {p}))
       IN  1 + Longest(ns.parents[n])

\* the depth of the namespace below the root: of its deepest asset
Depth(ns) ==
  LET D == { NodeDepth(ns, n) : n \in InNamespace(ns) } \cup {0}
  IN  CHOOSE d \in D : \A e \in D : e <= d

\* the depth of the deepest folder, the root being at depth 0
FolderDepth(ns) ==
  LET D == { NodeDepth(ns, n) :
               n \in { m \in InNamespace(ns) : ns.type[m] = "FOLDER" } }
             \cup {0}
  IN  CHOOSE d \in D : \A e \in D : e <= d

\* C15 as stated: an enumeration whose listings all succeeded has returned
\* after as many rounds of listing as the namespace is deep below the root.
C15_LevelsEqualDepth ==
  (enum.pc = "done" /\ enum.out.kind = "value" /\ AllListed)
    => enum.levels = Depth(namespace)

\* C15: on every finite acyclic namespace an enumeration that has started
\* returns. It lists one round more than the deepest folder is deep (the
\* root at depth 0) when every listing succeeds, and never more: as many
\* rounds as the namespace is deep if its deepest assets are not folders,
\* one more if a deepest asset is a folder, which has to be listed to be
\* found empty.
C15_Terminates ==
  (enum.pc = "gather")
    ~> (/\ enum.pc = "done"
        /\ folder_queue = <<>>
        /\ enum.levels <= FolderDepth(namespace) + 1
        /\ (enum.out.kind = "value" /\ AllListed)
             => /\ enum.levels = FolderDepth(namespace) + 1
                /\ enum.levels \in {Depth(namespace), Depth(namespace) + 1})

\* an enumeration of a namespace with a folder inside a folder has
\* returned after three rounds of listing
C15_Witness ==
  /\ enum.pc = "done" /\ enum.out.kind = "value" /\ AllListed
  /\ enum.levels = 3
  /\ FolderDepth(namespace) = 2

\* C16: constructing the session from a sepal-user header whose
\* googleTokens is null or empty raises EEClientError at once: no session
\* comes to exist, no client is created, nothing is sent to the broker or
\* to the compute API, and nothing is retried.
C16_NoTokensRaises ==
  constructor.google_tokens \in {"null", "empty"}
    => /\ constructor.state = "raised"
       /\ constructor.err = "EEClientError"
       /\ credentials = NoBundle
       /\ retry_count = 0
       /\ async_client = None
       /\ \A i \in ClientIds : clients[i] = FreeClient
       /\ \A t \in Tasks : task[t].pc = "idle" /\ task[t].reqs = 0

\* the constructor has raised for googleTokens: null, and time has passed
C16_Witness ==
  /\ constructor.state = "raised"
  /\ constructor.google_tokens = "null"
  /\ now > 0

\* the session was constructed from long-lived credentials: ee_project,
\* credentials_path and credentials_dict, no sepal_user, no sepal_headers
FromCredentials(S) ==
  /\ S.sepal_user = "none" /\ ~S.sepal_headers.present
  /\ S.project_id # "none" /\ S.credentials_path # "none"
  /\ S.credentials_dict # "none"

\* C17: an EESession constructed from long-lived credentials is
\* constructed without an error, and its get_headers and rest_call obtain
\* authorization headers: they do not fail for lack of headers.
C17_CredentialsSessionUsable ==
  FromCredentials(ee_session)
    => /\ ee_session.state # "raised"
       /\ ee_result.op \in {"get_headers", "rest_call"}
            => /\ ee_result.kind = "raise"
                    => ee_result.err = "EERestException"
               /\ ee_result.kind # "raise"
                    => ee_result.headers.Authorization # <<>>

\* C18: a successful refresh replaces the whole bundle. The headers a
\* get_headers call returns after set_credentials stored a broker answer
\* carry the access_token and the project_id of that answer, and the
\* expiry that is_expired tests is the one of that answer.
C18_RefreshReplacesBundle ==
  \A t \in Tasks :
    (task[t].pc = "done" /\ task[t].op = "get_headers"
       /\ task[t].out.kind = "headers" /\ task[t].last_status = 200)
      => /\ task[t].out.headers.Authorization =
              <<"Bearer", credentials.access_token>>
         /\ task[t].out.headers.project = credentials.project_id
         /\ expiry_date = credentials.access_token_expiry_date

\* C19: a get_headers or rest_call on a stale token, alone on the session,
\* reaches the broker: it does not end in the recursion of get_headers,
\* set_credentials and get_client without a request having been sent.
C19_RefreshReachesBroker ==
  \A t \in Tasks :
    (task[t].pc = "done" /\ task[t].op \in {"get_headers", "rest_call"}
       /\ \A u \in Tasks \ {t} : task[u].pc = "idle")
      => task[t].out.err # "RecursionError"

\* C20: every HTTP call has a client of its own. A client with a request
\* in flight is held by one coroutine only, it is the session's client and
\* it is not closed; no request is issued on a closed client.
C20_OwnClientScope ==
  \A t \in Tasks :
    /\ task[t].pc \in {"gh_request", "rc_request"}
         => /\ task[t].client # None
            /\ ~clients[task[t].client].closed
            /\ async_client = task[t].client
            /\ \A u \in Tasks \ {t} : task[u].client # task[t].client
    /\ task[t].pend.err # "RuntimeError"

\* C21: every attempt of rest_call obtains its headers anew. A request to
\* the compute API is sent only in an attempt that began with the
\* staleness check of get_headers, also while other rest_calls are in
\* flight: none is sent in an attempt that began on a stale token.
C21_HeadersEachAttempt ==
  [][\A t \in Tasks :
       (/\ task[t].pc \in {"idle", "rc_sleep"}
        /\ task'[t].pc = "rc_request")
         => ~is_expired(expiry_date, now)]_vars

\* C22: rest_call sleeps only while an attempt remains. A call that ends
\* with the rate-limit error after max_attempts requests has slept
\* max_attempts - 1 times: there is no sleep after the last 429.
C22_NoSleepAfterLastAttempt ==
  \A t \in Tasks :
    (task[t].pc = "done" /\ task[t].op = "rest_call"
       /\ task[t].out = OutRaise("EERestException",
                                 "Max retry attempts reached", RateLimitCode))
      => Len(task[t].waits) = task[t].max_attempts - 1

\* C23: is_expired is pure. The step in which a caller evaluates
\* is_expired changes no field of the session, whatever the result: in
\* particular retry_count is the same after the call as before it.
C23_IsExpiredPure ==
  [][\A t \in Tasks :
       (task[t].pc = "idle" /\ task'[t].op = "is_expired")
         => /\ retry_count' = retry_count
            /\ expiry_date' = expiry_date
            /\ credentials' = credentials
            /\ project_id' = project_id
            /\ async_client' = async_client]_vars

\* C24: an EESession is never permanently failed. Whenever the credentials
\* file of a session constructed for a sepal_user alone holds a token that
\* is not stale, a get_headers call made now returns headers, whatever refreshes
\* and failures came before: the retry budget is per refresh episode.
C24_NeverPermanentlyFailed ==
  (/\ ee_session.state = "returned"
   /\ ee_session.sepal_user # "none"
   /\ ~ee_session.sepal_headers.present
   /\ ~EESession_is_expired(credentials_file.access_token_expiry_date, now))
    => \A fresh \in FreshSequences :
         EESession_get_headers(ee_session, fresh, credentials_file).kind
           = "headers"

\* C25: an EESession constructed from SEPAL headers whose token is not
\* stale is constructed without raising, and its headers are built from
\* that token: x-goog-user-project is the projectId of the tokens and
\* Authorization is "Bearer " followed by their accessToken.
C25_HeadersFromSepalTokens ==
  LET g == ee_session.sepal_headers.googleTokens
  IN  (/\ ee_session.state # "pending"
       /\ ee_session.sepal_user = "none"
       /\ ee_session.sepal_headers.present
       /\ ~EESession_is_expired(g.accessTokenExpiryDate, now))
        => /\ ee_session.state = "returned"
           /\ ee_session.headers.set
           /\ ee_session.headers.value.project = g.projectId
           /\ ee_session.headers.value.Authorization = Bearer(g.accessToken)

\* C26: EESession.is_expired reads the expiry as unix milliseconds. For
\* the expiry of the credentials file and the current time it answers as
\* AsyncEESession.is_expired does: stale exactly when expiry/1000 - now < 60.
C26_ExpiryInMilliseconds ==
  ee_session.state = "returned"
    => (EESession_is_expired(credentials_file.access_token_expiry_date, now)
          <=> is_expired(credentials_file.access_token_expiry_date, now))

\* C27: the level barrier of get_assets_async_concurrent. While a level is
\* awaited there is exactly one listing request per node of the frontier:
\* as many requests as the frontier has distinct folders. The enumeration
\* leaves a level (starts the requests of the next level, or ends) only
\* when every request of the level has its response, and the requests of
\* the next level are issued together.
C27_LevelBarrier ==
  [][enum.pc = "gather" =>
       /\ Len(responses) = Cardinality(Range(enum.current_folders))
       /\ (enum'.levels = enum.levels + 1 \/ enum'.out.kind = "value")
            => \A i \in DOMAIN responses : responses[i] # NoResponse
       /\ enum'.levels = enum.levels + 1
            => /\ enum'.pc = "gather"
               /\ Len(enum'.current_folders) > 0
               /\ responses' = [i \in 1..Len(enum'.current_folders)
                                  |-> NoResponse]]_vars

\* C28: no node is revisited. On every acyclic namespace, a DAG included,
\* a folder is at most once on the frontier of a level, a folder put on a
\* new frontier was not listed on an earlier level, and a folder is at most
\* once in the list of results.
C28_NoRevisit ==
  /\ \A i, j \in DOMAIN enum.current_folders :
       enum.current_folders[i] = enum.current_folders[j] => i = j
  /\ (enum.pc = "gather" /\ \A i \in DOMAIN responses :
                              responses[i] = NoResponse)
       => \A i \in DOMAIN enum.current_folders :
            \A p \in enum.listed : p[1] # enum.current_folders[i]
  /\ \A i, j \in DOMAIN asset_list :
       (asset_list[i].type = "FOLDER" /\ asset_list[i].id = asset_list[j].id)
         => i = j

\* C29: the attempts of a refresh are counted per refresh. Whatever the
\* other tasks do on the session meanwhile, one set_credentials execution
\* sends at most max_retries requests to the broker, and it fails with
\* "Failed to retrieve credentials" only after max_retries requests of its
\* own were answered with a status other than 200.
C29_AttemptsPerRefresh ==
  \A t \in Tasks :
    task[t].op = "get_headers"
      => /\ task[t].reqs <= max_retries
         /\ (task[t].pc = "done" /\ task[t].out.kind = "raise"
               /\ task[t].out.err = "ValueError")
              => task[t].reqs = max_retries

\* C30: the expiry the staleness check uses is the expiry of the stored
\* bundle: expiry_date = _credentials["access_token_expiry_date"] in every
\* state of a constructed session, after successful and failed refreshes
\* and after a 200 answer whose body lacks the expiry.
C30_ExpiryOfStoredBundle ==
  constructor.state = "returned"
    => expiry_date = credentials.access_token_expiry_date

====
